---- MODULE Spec2Model ----
(***************************************************************************)
(* Model of NaturalCommitLint: the two CLI commands                        *)
(*   llmlinter.py   lint_head_commit_message  (free-form, rules file)      *)
(*   lint_commit.py lint_head_commit_mesasge  (structured JSON prompt)     *)
(* and the pure helpers they define (str.strip, the LINT_FAIL search,      *)
(* extract_json_block, the GitHub URL regular expression).                 *)
(*                                                                         *)
(* Text is modelled as a sequence of lexemes: each element is a piece of   *)
(* the string ("LINT_", "FAIL", " ", "{", ...); the lexeme "<fence>"       *)
(* stands for three backticks.                                             *)
(***************************************************************************)
EXTENDS Integers, Sequences, FiniteSets, TLC

(***************************************************************************)
(* Bounds of the model                                                     *)
(***************************************************************************)
MaxRespLen == 3

MaxSegs == 3

MaxUrlLen == 5

(***************************************************************************)
(* Program constants                                                       *)
(***************************************************************************)
no_of_attempts == 3

None == "None"

\* None where a text (a sequence of lexemes) is expected: the groups of the
\* URL expression match one character at least, so no text it yields is empty
NoText == <<>>

Whitespace == {" ", "\n"}

(***************************************************************************)
(* Generic sequence helpers                                                *)
(***************************************************************************)
SeqsUpTo(S, n) == UNION {[1..k -> S] : k \in 0..n}

(***************************************************************************)
(* str.strip(): drop leading and trailing whitespace                       *)
(***************************************************************************)
RECURSIVE LStrip(_)
LStrip(s) ==
    IF s = <<>> THEN <<>>
    ELSE IF Head(s) \in Whitespace THEN LStrip(Tail(s))
    ELSE s

RECURSIVE RStrip(_)
RStrip(s) ==
    IF s = <<>> THEN <<>>
    ELSE IF s[Len(s)] \in Whitespace THEN RStrip(SubSeq(s, 1, Len(s) - 1))
    ELSE s

Strip(s) == RStrip(LStrip(s))

(***************************************************************************)
(* needle in haystack (Python's substring test), scanning left to right    *)
(***************************************************************************)
StartsWith(s, p) == Len(p) <= Len(s) /\ SubSeq(s, 1, Len(p)) = p

RECURSIVE Contains(_, _)
Contains(s, needle) ==
    IF Len(s) < Len(needle) THEN FALSE
    ELSE IF StartsWith(s, needle) THEN TRUE
    ELSE Contains(Tail(s), needle)

LINT_FAIL == <<"LINT_", "FAIL">>

\* a plausible slip: only honour the verdict token when it ends the reply
VerdictOnLastLine(results) ==
    IF Len(results) >= 2 /\ SubSeq(results, Len(results) - 1, Len(results)) = LINT_FAIL
    THEN "fail" ELSE "pass"

\* print_linter_output: the verdict shown for the (already stripped) reply
Verdict(results) ==
    IF Contains(results, LINT_FAIL) THEN "fail" ELSE "pass"

(***************************************************************************)
(* The GitHub URL regular expression, re.match (anchored at the start):    *)
(*   (?:https://github\.com/|git@github\.com:)([^/]+)/([^.]+)(\.git)?      *)
(* Lexemes "/" and "." are the only ones holding a slash or a dot, besides *)
(* the two prefixes.                                                       *)
(***************************************************************************)
UrlPrefixes == {"https://github.com/", "git@github.com:"}

RECURSIVE TakeWhileNot(_, _)
TakeWhileNot(s, stop) ==
    IF s = <<>> \/ Head(s) = stop THEN <<>>
    ELSE <<Head(s)>> \o TakeWhileNot(Tail(s), stop)

ParseGithubUrl(url) ==
    IF url = <<>> \/ Head(url) \notin UrlPrefixes THEN <<NoText, NoText>>
    ELSE LET rest  == Tail(url)
             owner == TakeWhileNot(rest, "/")
             after == SubSeq(rest, Len(owner) + 2, Len(rest))
             repo  == TakeWhileNot(after, ".")
         IN IF owner = <<>> \/ Len(owner) >= Len(rest) \/ repo = <<>>
            THEN <<NoText, NoText>>
            ELSE <<owner, repo>>

(***************************************************************************)
(* json.loads on lexemes.  The JSON documents the lexemes can spell are    *)
(* objects: {} , { "a":1 } , { "b":2 } and { "k": <object> }, with         *)
(* whitespace allowed around every lexeme.  A decoded object is            *)
(* <<"dict">>, <<"dict", pair>> or <<"dict", "k", <decoded object>>>.      *)
(***************************************************************************)
Pairs == {"\"a\":1", "\"b\":2"}

KeyColon == "\"k\":"

RECURSIVE SkipWs(_, _)
SkipWs(t, i) ==
    IF i <= Len(t) /\ t[i] \in Whitespace THEN SkipWs(t, i + 1) ELSE i

ParseFail == [ok |-> FALSE, val |-> <<>>, next |-> 0]

ClosesAt(t, m, v) ==
    IF m <= Len(t) /\ t[m] = "}"
    THEN [ok |-> TRUE, val |-> v, next |-> m + 1]
    ELSE ParseFail

RECURSIVE ParseObject(_, _)
ParseObject(t, i) ==
    IF i > Len(t) \/ t[i] # "{" THEN ParseFail
    ELSE LET j == SkipWs(t, i + 1) IN
         IF j > Len(t) THEN ParseFail
         ELSE IF t[j] = "}" THEN [ok |-> TRUE, val |-> <<"dict">>, next |-> j + 1]
         ELSE IF t[j] \in Pairs THEN ClosesAt(t, SkipWs(t, j + 1), <<"dict", t[j]>>)
         ELSE IF t[j] = KeyColon
              THEN LET v == ParseObject(t, SkipWs(t, j + 1)) IN
                   IF v.ok
                   THEN ClosesAt(t, SkipWs(t, v.next), <<"dict", "k", v.val>>)
                   ELSE ParseFail
         ELSE ParseFail

json_loads(s) ==
    LET r == ParseObject(s, SkipWs(s, 1)) IN
    IF r.ok /\ SkipWs(s, r.next) > Len(s)
    THEN [ok |-> TRUE, val |-> r.val]
    ELSE [ok |-> FALSE, val |-> <<>>]

(***************************************************************************)
(* extract_json_block: re.search(pattern, text, re.DOTALL) for the pattern *)
(*   <fence>json\s*({.*?})\s*<fence>                                       *)
(* then json.loads(match.group(1)).                                        *)
(***************************************************************************)
JsonFence == "<fence>json"

\* every lexeme that begins with three backticks
Fences == {"<fence>", "<fence>json", "<fence>text"}

\* a plausible slip: no \s* between the fence and the brace
BraceRightAfterFence(t, i) == i + 1

\* where "{" must stand for a match that starts at the fence t[i]
BracePosition(t, i) == SkipWs(t, i + 1)

FenceFollows(t, q) ==
    LET f == SkipWs(t, q + 1) IN f <= Len(t) /\ t[f] \in Fences

\* .*? is lazy: the first "}" from q on that \s*<fence> follows; 0 when none
RECURSIVE FindClose(_, _)
FindClose(t, q) ==
    IF q > Len(t) THEN 0
    ELSE IF t[q] = "}" /\ FenceFollows(t, q) THEN q
    ELSE FindClose(t, q + 1)

\* group(1) of a match that starts at position i, <<>> when none starts there
MatchAt(t, i) ==
    IF t[i] # JsonFence THEN <<>>
    ELSE LET p == BracePosition(t, i) IN
         IF p > Len(t) \/ t[p] # "{" THEN <<>>
         ELSE LET q == FindClose(t, p + 1) IN
              IF q = 0 THEN <<>> ELSE SubSeq(t, p, q)

\* re.search: the match with the leftmost start
RECURSIVE SearchFrom(_, _)
SearchFrom(t, i) ==
    IF i > Len(t) THEN <<>>
    ELSE IF MatchAt(t, i) # <<>> THEN MatchAt(t, i)
    ELSE SearchFrom(t, i + 1)

\* extract_json_block has not been applied yet
NotRun == [outcome |-> "not run", value |-> <<>>]

NoBlockFound == [outcome |-> "ValueError",
                 value |-> <<"No valid JSON block found in the input.">>]

MalformedJSON == [outcome |-> "ValueError", value |-> <<"Invalid JSON content">>]

extract_json_block(t) ==
    LET json_str == SearchFrom(t, 1) IN
    IF json_str = <<>> THEN NoBlockFound
    ELSE IF json_loads(json_str).ok
         THEN [outcome |-> "dict", value |-> json_loads(json_str).val]
         ELSE MalformedJSON

(***************************************************************************)
(* validate_setup(repo_dir): None when it returns, "SystemExit" when it    *)
(* calls sys.exit.  The marker is .git in llmlinter.py and README.md in    *)
(* lint_commit.py.  Neither command calls it.                              *)
(***************************************************************************)
validate_setup(r, c) ==
    IF ~r.given THEN "SystemExit"
    ELSE IF ~r.exists THEN "SystemExit"
    ELSE IF c = "freeform" /\ ~r.git THEN "SystemExit"
    ELSE IF c = "structured" /\ ~r.readme THEN "SystemExit"
    ELSE None

(***************************************************************************)
(* The environment of one invocation                                       *)
(***************************************************************************)
\* the --repo-dir argument and what is on disk there
RepoLayouts ==
    {r \in [given : BOOLEAN, exists : BOOLEAN, git : BOOLEAN,
            config : BOOLEAN, readme : BOOLEAN] :
        /\ r.exists => r.given
        /\ r.git => r.exists
        /\ r.config => r.git
        /\ r.readme => r.exists}

NoOrigin == <<>>

\* url of [remote "origin"] in .git/config; NoOrigin when the section is absent
Origins ==
    { NoOrigin,
      <<"https://github.com/", "acme", "/", "widgets">>,
      <<"git@github.com:", "acme", "/", "widgets", ".", "git">>,
      <<"https://gitlab.com/", "acme", "/", "widgets", ".", "git">> }

Commits == {"commit1", "commit2"}

\* prior contents of the --output file
PriorContents == { <<>>, <<"old", "\n\n">> }

\* "LINT_" followed by "FAIL" spells the verdict token; "lint_fail" is other
\* text (here the token in lower case)
ResponseLexemes == {" ", "LINT_", "FAIL", "PASS", "lint_fail"}

\* what the gateway may return
Responses == SeqsUpTo(ResponseLexemes, MaxRespLen)

(***************************************************************************)
(* Replies given to extract_json_block: up to MaxSegs pieces, each a       *)
(* stretch of prose or a fenced block                                      *)
(***************************************************************************)
Seg(kind, body) == [kind |-> kind, body |-> body]

Segments ==
    { Seg("prose", <<"prose">>),
      Seg("text",  <<"\n", "{", "}", "\n">>),
      Seg("json",  <<"\n", "{", "}", "\n">>),
      Seg("json",  <<"\n", "{", "\"a\":1", "}", "\n">>),
      Seg("json",  <<"{", " ", "\"b\":2", "}">>),
      Seg("json",  <<"\n", "{", "\"k\":", "{", "}", "}", "\n">>),
      Seg("json",  <<"\n", "{", "prose", "}", "\n">>),
      Seg("json",  <<"\n", "{", "\"a\":1", "\n">>),
      Seg("json",  <<"\n", "prose", "\n">>) }

Render(g) ==
    IF g.kind = "prose" THEN g.body
    ELSE IF g.kind = "json" THEN <<JsonFence>> \o g.body \o <<"<fence>">>
    ELSE <<"<fence>text">> \o g.body \o <<"<fence>">>

RECURSIVE Flatten(_)
Flatten(gs) == IF gs = <<>> THEN <<>> ELSE Render(Head(gs)) \o Flatten(Tail(gs))

VARIABLES
    cmd,          \* "freeform" (llmlinter.py) or "structured" (lint_commit.py)
    repo,         \* element of RepoLayouts
    origin,       \* element of Origins
    rulesExists,  \* the --rules-file can be read
    output,       \* None or "out": the --output option
    file,         \* contents of the file --output names
    file0,        \* its contents before the invocation
    pc,           \* position in the command
    exc,          \* exception or exit that ended the command, None if none
    owner_repo,   \* (owner, repo) of get_owner_and_repo_from_git_config
    head_commit,  \* text returned by git show
    prompt,       \* the prompt, built once
    x,            \* loop variable of the retry loop
    results,      \* last reply of the gateway
    calls,        \* every gateway call so far: prompt, raised?, text
    gitCalls,     \* number of git subprocesses run
    console,      \* what was printed, in order
    segs,         \* the pieces the reply under extraction is made of
    text,         \* input of extract_json_block
    extracted     \* its outcome

cliVars == <<cmd, repo, origin, rulesExists, output, file, file0, pc, exc,
             owner_repo, head_commit, prompt, x, results, calls, gitCalls,
             console>>

vars == <<cmd, repo, origin, rulesExists, output, file, file0, pc, exc,
          owner_repo, head_commit, prompt, x, results, calls, gitCalls,
          console, segs, text, extracted>>

Say(kind, t) == [kind |-> kind, text |-> t]

Raise(e) == pc' = "error" /\ exc' = e

(***************************************************************************)
(* Pieces of the two commands                                              *)
(***************************************************************************)
\* a plausible slip: test the reply without stripping it
AcceptsUnstripped(r) == r # <<>>

\* llmlinter.py line 313: if results.strip()
Accepts(r) == Strip(r) # <<>>

\* does the retry loop end after iteration i, which got reply r
LeavesLoop(c, r, i) ==
    IF c = "freeform"
    THEN Accepts(r) \/ i + 1 >= no_of_attempts
    ELSE TRUE     \* lint_commit.py line 306: unconditional break

\* a plausible change: swallow the exception and go on to the next attempt
AfterRaiseRetry(i) == IF i + 1 < no_of_attempts THEN "loop" ELSE "error"

\* position after send_prompt_to_LLM raised in iteration i: nothing catches it
AfterRaise(i) == "error"

\* a plausible slip: open the file with 'w'
OverwriteOutput(old, r) == Strip(r) \o <<"\n\n">>

\* llmlinter.py lines 321-322: open(output, 'a+'); f.write(results.strip() + "\n\n")
AppendOutput(old, r) == old \o Strip(r) \o <<"\n\n">>

\* the prompt handed to the gateway in iteration i
PromptSent(p, i) == p

(***************************************************************************)
(* Initial state: the command is about to run                              *)
(***************************************************************************)
InitCli ==
    /\ cmd \in {"freeform", "structured"}
    /\ repo \in RepoLayouts
    /\ origin \in Origins
    /\ repo.config = FALSE => origin = NoOrigin
    /\ rulesExists \in BOOLEAN
    /\ cmd = "structured" => rulesExists = TRUE
    /\ output \in {None, "out"}
    /\ file0 \in PriorContents
    /\ output = None => file0 = <<>>
    /\ file = file0
    /\ pc = IF cmd = "structured" THEN "git_config" ELSE "owner"
    /\ exc = None
    /\ owner_repo = <<NoText, NoText>>
    /\ head_commit = None
    /\ prompt = <<>>
    /\ x = 0
    /\ results = <<>>
    /\ calls = <<>>
    /\ gitCalls = 0
    /\ console = <<>>

Init ==
    /\ InitCli
    /\ segs = <<>>
    /\ text = <<>>
    /\ extracted = NotRun

(***************************************************************************)
(* lint_commit.py line 239: git_config_info = get_git_config(repo_dir)     *)
(***************************************************************************)
GetGitConfig ==
    /\ pc = "git_config"
    /\ IF ~repo.given THEN Raise("TypeError")
       ELSE IF ~repo.config THEN Raise("FileNotFoundError")
       ELSE pc' = "owner" /\ exc' = exc
    /\ UNCHANGED <<cmd, repo, origin, rulesExists, output, file, file0,
                   owner_repo, head_commit, prompt, x, results, calls,
                   gitCalls, console, segs, text, extracted>>

(***************************************************************************)
(* get_owner_and_repo_from_git_config(repo_dir)                            *)
(***************************************************************************)
GetOwnerAndRepo ==
    /\ pc = "owner"
    /\ IF ~repo.given
       THEN /\ Raise("TypeError")
            /\ UNCHANGED <<owner_repo, console>>
       ELSE /\ pc' = "head"
            /\ exc' = exc
            /\ IF ~repo.config
               THEN /\ owner_repo' = <<NoText, NoText>>
                    /\ console' = Append(console, Say("log", "File not found"))
               ELSE IF origin = NoOrigin
               THEN /\ owner_repo' = <<NoText, NoText>>
                    /\ console' = Append(console, Say("log", "no origin remote"))
               ELSE /\ owner_repo' = ParseGithubUrl(origin)
                    /\ console' = IF ParseGithubUrl(origin) = <<NoText, NoText>>
                                  THEN Append(console, Say("log", "could not parse"))
                                  ELSE console
    /\ UNCHANGED <<cmd, repo, origin, rulesExists, output, file, file0,
                   head_commit, prompt, x, results, calls, gitCalls,
                   segs, text, extracted>>

(***************************************************************************)
(* get_head_commit(repo_dir): cd "repo_dir" && git show HEAD --name-only   *)
(* with check=True.  In an existing directory git may succeed (also from   *)
(* an enclosing work tree) or fail.                                        *)
(***************************************************************************)
GetHeadCommit ==
    /\ pc = "head"
    /\ gitCalls' = gitCalls + 1
    /\ \/ /\ repo.exists
          /\ \E c \in Commits : head_commit' = c
          /\ pc' = "prompt"
          /\ exc' = exc
       \/ /\ Raise("CalledProcessError")
          /\ UNCHANGED head_commit
    /\ UNCHANGED <<cmd, repo, origin, rulesExists, output, file, file0,
                   owner_repo, prompt, x, results, calls, console,
                   segs, text, extracted>>

(***************************************************************************)
(* Printing the head commit and building the prompt                        *)
(***************************************************************************)
BuildPrompt ==
    /\ pc = "prompt"
    /\ console' = Append(console, Say("head_commit", head_commit))
    /\ IF cmd = "freeform" /\ ~rulesExists
       THEN /\ Raise("FileNotFoundError")
            /\ UNCHANGED <<prompt, x>>
       ELSE /\ prompt' = <<cmd, head_commit, "rules">>
            /\ x' = 0
            /\ pc' = "loop"
            /\ exc' = exc
    /\ UNCHANGED <<cmd, repo, origin, rulesExists, output, file, file0,
                   owner_repo, head_commit, results, calls, gitCalls,
                   segs, text, extracted>>

(***************************************************************************)
(* One iteration of: for x in range(no_of_attempts)                        *)
(***************************************************************************)
SendPrompt ==
    /\ pc = "loop"
    /\ x < no_of_attempts
    /\ \/ \E r \in Responses :
            /\ calls' = Append(calls, [prompt |-> PromptSent(prompt, x),
                                       raised |-> FALSE, text |-> r])
            /\ results' = r
            /\ console' = IF cmd = "structured"
                          THEN Append(console, Say("raw", r))
                          ELSE console
            /\ IF LeavesLoop(cmd, r, x)
               THEN pc' = "report" /\ x' = x
               ELSE pc' = "loop" /\ x' = x + 1
            /\ exc' = exc
       \/ /\ calls' = Append(calls, [prompt |-> PromptSent(prompt, x),
                                     raised |-> TRUE, text |-> <<>>])
          /\ pc' = AfterRaise(x)
          /\ exc' = IF AfterRaise(x) = "error" THEN "TransportFailure" ELSE exc
          /\ x' = IF AfterRaise(x) = "error" THEN x ELSE x + 1
          /\ UNCHANGED <<results, console>>
    /\ UNCHANGED <<cmd, repo, origin, rulesExists, output, file, file0,
                   owner_repo, head_commit, prompt, gitCalls, segs, text, extracted>>

(***************************************************************************)
(* After the loop.  llmlinter.py lines 317-325: print_linter_output, the   *)
(* optional append to --output, the warning.  lint_commit.py lines         *)
(* 308-310: the warning only.                                              *)
(***************************************************************************)
Report ==
    /\ pc = "report"
    /\ pc' = "done"
    /\ IF cmd = "freeform"
       THEN /\ console' = console \o
                  << Say("lint_output", Strip(results)),
                     Say("verdict", Verdict(Strip(results))),
                     Say("warning", <<>>) >>
            /\ file' = IF output # None THEN AppendOutput(file, results) ELSE file
       ELSE /\ console' = Append(console, Say("warning", <<>>))
            /\ file' = file
    /\ UNCHANGED <<cmd, repo, origin, rulesExists, output, file0, exc,
                   owner_repo, head_commit, prompt, x, results, calls,
                   gitCalls, segs, text, extracted>>

Next ==
    \/ GetGitConfig
    \/ GetOwnerAndRepo
    \/ GetHeadCommit
    \/ BuildPrompt
    \/ SendPrompt
    \/ Report

Spec == Init /\ [][Next]_vars

(***************************************************************************)
(* extract_json_block applied to a reply.  Neither command calls it, so it *)
(* is exercised on its own.                                                *)
(***************************************************************************)
InitExtract ==
    /\ segs \in SeqsUpTo(Segments, MaxSegs)
    /\ text = Flatten(segs)
    /\ extracted = NotRun
    /\ cmd = None
    /\ repo = [given |-> FALSE, exists |-> FALSE, git |-> FALSE,
               config |-> FALSE, readme |-> FALSE]
    /\ origin = NoOrigin
    /\ rulesExists = FALSE
    /\ output = None
    /\ file0 = <<>>
    /\ file = <<>>
    /\ pc = None
    /\ exc = None
    /\ owner_repo = <<NoText, NoText>>
    /\ head_commit = None
    /\ prompt = <<>>
    /\ x = 0
    /\ results = <<>>
    /\ calls = <<>>
    /\ gitCalls = 0
    /\ console = <<>>

ExtractJsonBlock ==
    /\ extracted = NotRun
    /\ extracted' = extract_json_block(text)
    /\ UNCHANGED <<segs, text>>
    /\ UNCHANGED cliVars

NextExtract == ExtractJsonBlock

SpecExtract == InitExtract /\ [][NextExtract]_vars

(***************************************************************************)
(* Properties of the retry loop                                            *)
(***************************************************************************)
Terminated == pc \in {"done", "error"}

IsEmptyReply(c) == ~c.raised /\ Strip(c.text) = <<>>

\* the attempt whose reply goes downstream: the first with text left after
\* trimming, the last of the budget when there is none
AcceptedIndex(cs) ==
    CHOOSE k \in 1..Len(cs) :
        /\ \A j \in 1..(k - 1) : IsEmptyReply(cs[j])
        /\ ~IsEmptyReply(cs[k]) \/ k = no_of_attempts

OutputsOf(kind) == {i \in 1..Len(console) : console[i].kind = kind}

\* C1: in the free-form command the gateway is called in sequence with the
\* same prompt, at least once and at most 3 times; an attempt is made only
\* when every earlier reply was empty after trimming; the first reply with
\* text left after trimming is the one handed to print_linter_output; and
\* three empty replies hand on the third, with no exception.
C1_RetryLoop ==
    cmd = "freeform" =>
      /\ Len(calls) <= no_of_attempts
      /\ \A i \in 1..Len(calls) : calls[i].prompt = prompt
      /\ \A i \in 2..Len(calls) : \A j \in 1..(i - 1) : IsEmptyReply(calls[j])
      /\ pc = "loop" => x = Len(calls)
      /\ (\E i \in 1..Len(calls) : ~calls[i].raised /\ ~IsEmptyReply(calls[i]))
            => pc \in {"report", "done"}
      /\ (Len(calls) = no_of_attempts /\ \A i \in 1..Len(calls) : IsEmptyReply(calls[i]))
            => pc \in {"report", "done"} /\ exc = None
      /\ pc \in {"report", "done"} =>
            /\ Len(calls) >= 1
            /\ \E k \in 1..Len(calls) :
                  /\ \A j \in 1..(k - 1) : IsEmptyReply(calls[j])
                  /\ ~IsEmptyReply(calls[k]) \/ k = no_of_attempts
            /\ AcceptedIndex(calls) = Len(calls)
            /\ results = calls[AcceptedIndex(calls)].text
      /\ pc = "done" =>
            \E i \in OutputsOf("lint_output") :
                console[i].text = Strip(calls[AcceptedIndex(calls)].text)

C1_Witness ==
    /\ cmd = "freeform"
    /\ pc = "done"
    /\ Len(calls) = no_of_attempts
    /\ IsEmptyReply(calls[1])
    /\ IsEmptyReply(calls[2])
    /\ calls[1].text # calls[2].text
    /\ Strip(results) # <<>>
    /\ Strip(results) # results

\* C2: in the structured command an empty first reply is followed by a
\* second attempt (and two empty replies by a third).
C2_StructuredRetries ==
    (cmd = "structured" /\ pc = "done" /\ IsEmptyReply(calls[1]))
        => Len(calls) >= 2

\* C3 as stated: a raising call on attempt 1 or 2 consumes an attempt and is
\* followed by the next attempt.
C3_RaiseIsRetried ==
    (Terminated /\ Len(calls) >= 1 /\ calls[1].raised) => Len(calls) >= 2

\* C3 amended: a raising gateway call on any attempt ends the command at
\* once with that exception; no attempt follows it.
C3_RaisePropagates ==
    \A i \in 1..Len(calls) :
        calls[i].raised =>
            /\ i = Len(calls)
            /\ pc = "error"
            /\ exc = "TransportFailure"
            /\ OutputsOf("verdict") = {}
            /\ file = file0

C3_Witness ==
    /\ cmd = "freeform"
    /\ Len(calls) = 2
    /\ IsEmptyReply(calls[1])
    /\ calls[2].raised
    /\ pc = "error"

(***************************************************************************)
(* Properties of the verdict                                               *)
(***************************************************************************)
HasLintFail(t) == \E i \in 1..(Len(t) - 1) : t[i] = "LINT_" /\ t[i + 1] = "FAIL"

\* C6: in the free-form command the verdict shown is fail exactly when the
\* trimmed reply holds LINT_FAIL at some position, and pass otherwise.
C6_FreeformVerdict ==
    (cmd = "freeform" /\ pc = "done") =>
        /\ Cardinality(OutputsOf("verdict")) = 1
        /\ \A i \in OutputsOf("verdict") :
              /\ console[i].text \in {"pass", "fail"}
              /\ console[i].text = "fail" <=> HasLintFail(Strip(results))

C6_Witness ==
    /\ cmd = "freeform"
    /\ pc = "done"
    /\ results = <<"LINT_", "FAIL", "PASS">>
    /\ \E i \in OutputsOf("verdict") : console[i].text = "fail"

VerdictKind(c) == IF c = "freeform" THEN "verdict" ELSE "record"

\* C7: a command that completes without an exception has shown exactly one
\* verdict: a pass/fail token in the free-form command, a record decoded
\* from the reply's JSON in the structured command.
C7_OneVerdict ==
    pc = "done" => Cardinality(OutputsOf(VerdictKind(cmd))) = 1

(***************************************************************************)
(* Properties of the setup                                                 *)
(***************************************************************************)
\* C8: with no --repo-dir, a missing directory or a missing marker the
\* command exits with a message before git or the gateway is called.
C8_SetupError ==
    validate_setup(repo, cmd) = "SystemExit" =>
        /\ gitCalls = 0
        /\ calls = <<>>
        /\ Terminated => exc = "SystemExit"

ConfigUnusable ==
    ~repo.config \/ origin = NoOrigin \/ ParseGithubUrl(origin) = <<NoText, NoText>>

\* C9: with a missing or unparsable remote configuration both commands
\* degrade to (None, None), log a message and go on to git show.
C9_ConfigRecoverable ==
    (repo.exists /\ ConfigUnusable /\ Terminated) =>
        /\ gitCalls >= 1
        /\ owner_repo = <<NoText, NoText>>
        /\ OutputsOf("log") # {}

(***************************************************************************)
(* Properties of the output file                                           *)
(***************************************************************************)
IsPrefix(s, t) == Len(s) <= Len(t) /\ SubSeq(t, 1, Len(s)) = s

\* C10: the output file is only appended to.  In the free-form command with
\* --output the file ends as its prior content, then the trimmed accepted
\* reply, then the blank-line separator, written after the retry loop;
\* without --output nothing is written.
C10_OutputAppended ==
    /\ IsPrefix(file0, file)
    /\ pc # "done" => file = file0
    /\ output = None => file = file0
    /\ (cmd = "freeform" /\ pc = "done" /\ output # None) =>
          file = file0 \o Strip(calls[AcceptedIndex(calls)].text) \o <<"\n\n">>

C10_Witness ==
    /\ cmd = "freeform"
    /\ pc = "done"
    /\ output # None
    /\ file0 # <<>>
    /\ Len(calls) = 2
    /\ Strip(results) # results
    /\ file = file0 \o Strip(results) \o <<"\n\n">>

(***************************************************************************)
(* Properties of extract_json_block                                        *)
(***************************************************************************)
JsonBodies == [i \in {j \in 1..Len(segs) : segs[j].kind = "json"} |-> segs[i].body]

JsonIndexes == DOMAIN JsonBodies

FirstJson == CHOOSE i \in JsonIndexes : \A j \in JsonIndexes : i <= j

LastJson == CHOOSE i \in JsonIndexes : \A j \in JsonIndexes : j <= i

\* C4: a reply with two or more json-fenced blocks yields the decoded
\* content of the last block.
C4_LastBlockWins ==
    (extracted # NotRun /\ Cardinality(JsonIndexes) >= 2
        /\ json_loads(JsonBodies[LastJson]).ok)
      => extracted = [outcome |-> "dict",
                      value |-> json_loads(JsonBodies[LastJson]).val]

AllWs(t, a, b) == \A k \in a..b : t[k] \in Whitespace

\* a json fence, then whitespace, then "{" ... "}", then whitespace, then a fence
HasBraceSpan(t) ==
    \E i \in 1..Len(t) : \E p \in (i + 1)..Len(t) : \E q \in (p + 1)..Len(t) :
      \E f \in (q + 1)..Len(t) :
        /\ t[i] = JsonFence
        /\ AllWs(t, i + 1, p - 1)
        /\ t[p] = "{"
        /\ t[q] = "}"
        /\ AllWs(t, q + 1, f - 1)
        /\ t[f] \in Fences

BraceEnclosed(b) ==
    Strip(b) # <<>> /\ Head(Strip(b)) = "{" /\ Strip(b)[Len(Strip(b))] = "}"

UrlHeads == { <<"https://github.com/">>, <<"git@github.com:">>,
              <<"https://gitlab.com/">>, <<>> }

UrlLexemes == {"/", ".", "git", "acme", "widgets"}

Urls == {h \o t : h \in UrlHeads, t \in SeqsUpTo(UrlLexemes, MaxUrlLen)}

InitUrl ==
    /\ origin \in Urls
    /\ owner_repo = <<NoText, NoText>>
    /\ pc = "match"
    /\ cmd = None
    /\ repo = [given |-> TRUE, exists |-> TRUE, git |-> TRUE,
               config |-> TRUE, readme |-> TRUE]
    /\ rulesExists = FALSE
    /\ output = None
    /\ file0 = <<>>
    /\ file = <<>>
    /\ exc = None
    /\ head_commit = None
    /\ prompt = <<>>
    /\ x = 0
    /\ results = <<>>
    /\ calls = <<>>
    /\ gitCalls = 0
    /\ console = <<>>
    /\ segs = <<>>
    /\ text = <<>>
    /\ extracted = NotRun

\* lines 230-237: match the url, return the groups or (None, None)
MatchOriginUrl ==
    /\ pc = "match"
    /\ pc' = "matched"
    /\ owner_repo' = ParseGithubUrl(origin)
    /\ console' = IF ParseGithubUrl(origin) = <<NoText, NoText>>
                  THEN Append(console, Say("log", "could not parse"))
                  ELSE console
    /\ UNCHANGED <<cmd, repo, origin, rulesExists, output, file, file0, exc,
                   head_commit, prompt, x, results, calls, gitCalls,
                   segs, text, extracted>>

NextUrl == MatchOriginUrl

SpecUrl == InitUrl /\ [][NextUrl]_vars

(***************************************************************************)
(* Properties of the URL mapping                                           *)
(***************************************************************************)
DotGit == <<".", "git">>

EndsWith(s, e) == Len(e) <= Len(s) /\ SubSeq(s, Len(s) - Len(e) + 1, Len(s)) = e

WithoutDotGit(s) ==
    IF EndsWith(s, DotGit) THEN SubSeq(s, 1, Len(s) - Len(DotGit)) ELSE s

Slashes(s) == {i \in 1..Len(s) : s[i] = "/"}

\* prefix, owner, "/", repo, optional ".git": owner and repo are not empty,
\* hold no slash and do not begin with a dot
IsGithubForm(u) ==
    /\ u # <<>>
    /\ Head(u) \in UrlPrefixes
    /\ LET b == WithoutDotGit(Tail(u)) IN
         /\ Cardinality(Slashes(b)) = 1
         /\ \A i \in Slashes(b) :
               1 < i /\ i < Len(b) /\ b[1] # "." /\ b[i + 1] # "."

OwnerRepoOf(u) ==
    LET b == WithoutDotGit(Tail(u))
        i == CHOOSE k \in Slashes(b) : TRUE
    IN <<SubSeq(b, 1, i - 1), SubSeq(b, i + 1, Len(b))>>

\* C11: a url of the form prefix owner/repo(.git)? maps to exactly
\* (owner, repo), only the optional .git suffix removed; every other url
\* maps to (None, None).
C11_UrlMapping ==
    pc = "matched" =>
        owner_repo = IF IsGithubForm(origin)
                     THEN OwnerRepoOf(origin)
                     ELSE <<NoText, NoText>>

====
